---- MODULE Spec2Model ----
(***************************************************************************)
(* Model of process_hospital_files.py: an incremental synchronisation of   *)
(* the CMS provider-data metastore.  One run of main() reads the run       *)
(* ledger (run_list.csv), fetches the catalog, filters it by theme and by  *)
(* modification time, downloads the selected files in a thread pool and    *)
(* appends one row to the ledger.  A behaviour is a sequence of runs; the  *)
(* ledger file is the only state that survives a run.                      *)
(*                                                                         *)
(* Time is a counter of ticks; a calendar day is TicksPerDay ticks long,    *)
(* and the first tick of a day is its midnight: the instant a date without *)
(* a time of day ("2024-06-01") stands for.                                *)
(***************************************************************************)
EXTENDS Integers, Sequences, FiniteSets, TLC

NumDatasets == 2        \* descriptors in the remote catalog
MaxTime     == 2        \* last instant of the modelled clock
TicksPerDay == 2        \* instants per calendar day
MaxRuns     == 3        \* executions of main() in one behaviour

max_workers == 50       \* ThreadPoolExecutor(max_workers=50)
Sentinel    == -1       \* datetime(1900, 1, 1): before every modelled instant

VARIABLES
    now,                  \* the wall clock (datetime.today())
    catalog,              \* the remote metastore: a sequence of descriptors
    ledger_exists,        \* METADATA_PATH.exists()
    ledger,               \* the data rows of run_list.csv, in file order
    pc,                   \* the stage main() is in
    abort_stage,          \* the stage whose exception ended the run ("" if none)
    runs,                 \* executions of main() started so far
    last_run_date,        \* main: last_run_date
    response_status,      \* status of the metastore response (0: none yet)
    all_datasets,         \* main: all_datasets, the parsed response body
    modified_datasets,    \* main: modified_datasets
    futures,              \* state of the future of each entry of url_list
    collected,            \* positions of url_list that as_completed has yielded
    processed_file_count, \* main: processed_file_count
    errors_logged,        \* "Error processing ..." lines printed by the run
    written,              \* the files under output/ the workers of the run wrote
    ledger0,              \* history: the ledger rows when the run started
    ledger_reads,         \* history: pd.read_csv calls on the ledger in the run
    ledger_appends,       \* history: rows appended to the ledger in the run
    last_done,            \* history: per dataset, the modified value a completed run last selected
    failed_date,          \* history: per dataset, the date of the last run that failed to download it
    max_appended,         \* history: the largest run date ever appended
    fetch_time,           \* history: the instant the run fetched the catalog
    last_completed_fetch, \* history: fetch_time of the last run that completed
    completed_good,       \* history: every completed run got a 200 response holding a list
    fn_pc,                \* a function taken alone: "off", "ready" or "done"
    fn_in,                \* its name and its arguments
    fn_out,               \* what the call raised or returned
    pool_pending,         \* the pool taken alone: calls queued,
    pool_running,         \*   calls a pool thread is executing,
    pool_finished         \*   calls that returned or raised

vars == <<now, catalog, ledger_exists, ledger, pc, abort_stage, runs,
          last_run_date, response_status, all_datasets, modified_datasets,
          futures, collected, processed_file_count, errors_logged, written,
          ledger0, ledger_reads, ledger_appends, last_done, failed_date,
          max_appended, fetch_time, last_completed_fetch, completed_good,
          fn_pc, fn_in, fn_out, pool_pending, pool_running, pool_finished>>

run_locals == <<last_run_date, response_status, all_datasets, modified_datasets,
                futures, collected, processed_file_count, errors_logged>>
history    == <<ledger0, ledger_reads, ledger_appends, last_done, failed_date,
                max_appended, fetch_time, last_completed_fetch,
                completed_good>>
world      == <<now, catalog>>
side       == <<fn_pc, fn_in, fn_out, pool_pending, pool_running, pool_finished>>

Datasets == 1..NumDatasets

----------------------------------------------------------------------------
(* Dates.  update_run_metadata writes run_date.strftime("%Y-%m-%d"), which *)
(* drops the time of day; pd.read_csv(parse_dates=...) reads the date back *)
(* as the instant at midnight of that day.                                 *)

strftime_date(t) == t \div TicksPerDay

parse_date(d) == d * TicksPerDay

\* df["run_date"].max(): the empty set stands for NaT (no rows).
column_max(col) == {m \in col : \A x \in col : x <= m}

get_last_run_date_min(rows) ==
    LET run_dates == {parse_date(rows[i].run_date) : i \in DOMAIN rows}
        min_date  == {m \in run_dates : \A x \in run_dates : m <= x}
    IN  IF min_date = {} THEN Sentinel ELSE CHOOSE m \in min_date : TRUE

\* The value get_last_run_date returns for a ledger holding `rows`.
get_last_run_date(rows) ==
    LET run_dates == {parse_date(rows[i].run_date) : i \in DOMAIN rows}
        max_date  == column_max(run_dates)
    IN  IF max_date = {} THEN Sentinel ELSE CHOOSE m \in max_date : TRUE

----------------------------------------------------------------------------
(* Catalog descriptors.  theme, modified_kind and distribution say what    *)
(* the JSON object holds in each field:                                    *)
(*   theme:         "list_with"  a list holding "Hospitals"                *)
(*                  "list_without" a list not holding it                   *)
(*                  "absent"     no "theme" key                            *)
(*                  "str_with"   a string with "Hospitals" inside it, such *)
(*                               as "Rural Hospitals"                      *)
(*                  "str_without" a string without it                      *)
(*                  "null"       null, or a number                         *)
(*   modified_kind: "naive"      an ISO timestamp without UTC offset       *)
(*                  "aware"      an ISO timestamp with a UTC offset        *)
(*                  "absent"     no "modified" key                         *)
(*                  "invalid"    a string that is no ISO timestamp         *)
(*   distribution:  the list of the downloadURL values, empty or of one    *)
(*                  URL.  A URL is the sequence of its parts between "/".  *)

download_url(dir, file) == <<"https:", "", "h", dir, file>>

url_of(i) == download_url(ToString(i), ToString(i) \o ".csv")

\* A file of the name of the first dataset's, in another directory.
url_named_as_first(i) == download_url(ToString(i), "1.csv")

Descriptor(i, th, mk, dist) ==
    [identifier |-> i, theme |-> th, modified_kind |-> mk, modified |-> 0,
     distribution |-> dist]

InitDescriptors(i) ==
    { Descriptor(i, "list_with", "naive", <<url_of(i)>>),
      Descriptor(i, "list_without", "naive", <<url_of(i)>>),
      Descriptor(i, "absent", "naive", <<url_of(i)>>),
      Descriptor(i, "list_with", "absent", <<url_of(i)>>),
      Descriptor(i, "list_with", "aware", <<url_of(i)>>),
      Descriptor(i, "list_with", "naive", <<>>),
      Descriptor(i, "list_with", "naive", <<url_named_as_first(i)>>) }

\* `"Hospitals" in d["theme"]`, with KeyError and TypeError caught: `in` is
\* membership on a list and the substring test on a string; it raises
\* TypeError on None and on a number, d["theme"] raises KeyError.
has_hospitals_theme(d) == d.theme \in {"list_with", "str_with"}

\* The parsed body: a JSON list of descriptors, a JSON object or a scalar.
JsonList(items) == [kind |-> "list", items |-> items]
JsonOther(kind) == [kind |-> kind, items |-> <<>>]
NoJson          == JsonOther("none")

\* `for d in dataset_list` raises TypeError when the body is a number or null.
iteration_raises(v) == v.kind = "scalar"

\* filter_hospital_entries: iterating a JSON object yields its keys, strings,
\* on which d["theme"] raises the TypeError the loop catches.
filter_hospital_entries(v) ==
    IF v.kind = "list" THEN SelectSeq(v.items, has_hospitals_theme) ELSE <<>>

\* datetime.fromisoformat(d["modified"]) succeeds.
modified_parses(d) == d.modified_kind \in {"naive", "aware"}

\* `mod > last_run_date` raises TypeError for an offset-aware `mod`: the
\* cutoff is offset-naive, and the comparison is outside the try block.
filter_modified_raises(list) ==
    \E i \in DOMAIN list : list[i].modified_kind = "aware"

filter_modified_entries(list, cutoff) ==
    LET keep(d) == modified_parses(d) /\ d.modified > cutoff
    IN  SelectSeq(list, keep)

\* dataset["distribution"][0]["downloadURL"] raises on an empty list.
url_extraction_raises(list) ==
    \E i \in DOMAIN list : list[i].distribution = <<>>

url_list_of(list) == [i \in DOMAIN list |-> list[i].distribution[1]]

\* url.rsplit("/", 1)[-1]: the file name under output/.
output_path(url) == url[Len(url)]

url_list == url_list_of(modified_datasets)

----------------------------------------------------------------------------
(* Initial state: nothing has run yet, run_list.csv does not exist.        *)

Never == Sentinel

\* No run of main() has started; the catalog is c.
NotStarted(c) ==
    /\ now = 0
    /\ catalog = c
    /\ ledger_exists = FALSE
    /\ ledger = <<>>
    /\ pc = "Idle"
    /\ abort_stage = ""
    /\ runs = 0
    /\ last_run_date = Sentinel
    /\ response_status = 0
    /\ all_datasets = NoJson
    /\ modified_datasets = <<>>
    /\ futures = <<>>
    /\ collected = {}
    /\ processed_file_count = 0
    /\ errors_logged = 0
    /\ written = {}
    /\ ledger0 = <<>>
    /\ ledger_reads = 0
    /\ ledger_appends = 0
    /\ last_done = [i \in Datasets |-> Never]
    /\ failed_date = [i \in Datasets |-> Never]
    /\ max_appended = Never
    /\ fetch_time = Never
    /\ last_completed_fetch = Never
    /\ completed_good = TRUE

\* The catalog while main() is not looked at.
AnyCatalog ==
    [i \in Datasets |-> Descriptor(i, "list_with", "naive", <<url_of(i)>>)]

Catalogs == {c \in [Datasets -> UNION {InitDescriptors(i) : i \in Datasets}] :
               \A i \in Datasets : c[i] \in InitDescriptors(i)}

\* Nothing is being looked at alone.
SideOff ==
    /\ fn_pc = "off"
    /\ fn_in = [f |-> "none"]
    /\ fn_out = [raised |-> FALSE, value |-> <<>>]
    /\ pool_pending = 0
    /\ pool_running = 0
    /\ pool_finished = 0

Init ==
    /\ \E c \in Catalogs : NotStarted(c)
    /\ SideOff

----------------------------------------------------------------------------
(* The environment: the clock advances, the publisher changes a dataset.   *)
(* main() reads the clock once (datetime.today() in the call of            *)
(* update_run_metadata) and the catalog once (get_file_data), so a step of *)
(* the environment is seen by the program only at these two reads.  The    *)
(* model lets the environment move right before a read; a move made at any *)
(* other moment is the same move made before the next read.  Only the      *)
(* modified value of a Hospitals descriptor is ever compared with the      *)
(* cutoff, so these are the changes the publisher makes.                   *)

BeforeRead == pc \in {"FetchingCatalog", "UpdatingLedger"}

Tick ==
    /\ BeforeRead
    /\ now < MaxTime
    /\ now' = now + 1
    /\ UNCHANGED <<catalog, ledger_exists, ledger, pc, abort_stage, runs,
                   run_locals, history>>
    /\ UNCHANGED <<written, side>>

Modify(i) ==
    /\ BeforeRead
    /\ has_hospitals_theme(catalog[i])
    /\ catalog[i].modified_kind = "naive"
    /\ catalog[i].modified # now
    /\ catalog' = [catalog EXCEPT ![i].modified = now]
    /\ UNCHANGED <<now, ledger_exists, ledger, pc, abort_stage, runs,
                   run_locals, history>>
    /\ UNCHANGED <<written, side>>

----------------------------------------------------------------------------
(* One execution of main().                                                *)

\* An uncaught exception in `stage` ends the process.
Abort(stage) ==
    /\ pc' = "Aborted"
    /\ abort_stage' = stage

\* `python process_hospital_files.py`: a new process, fresh locals.
Start ==
    /\ pc \in {"Idle", "Done", "Aborted"}
    /\ runs < MaxRuns
    /\ runs' = runs + 1
    /\ pc' = "ReadingCutoff"
    /\ abort_stage' = ""
    /\ last_run_date' = Sentinel
    /\ response_status' = 0
    /\ all_datasets' = NoJson
    /\ modified_datasets' = <<>>
    /\ futures' = <<>>
    /\ collected' = {}
    /\ processed_file_count' = 0
    /\ errors_logged' = 0
    /\ written' = {}
    /\ ledger0' = ledger
    /\ ledger_reads' = 0
    /\ ledger_appends' = 0
    /\ fetch_time' = Never
    /\ UNCHANGED <<world, ledger_exists, ledger, last_done, failed_date,
                   max_appended, last_completed_fetch, completed_good>>
    /\ UNCHANGED side

\* get_last_run_date with every row rewritten: the header is written
\* whether or not the file exists.
ReadCutoff_truncate ==
    /\ pc = "ReadingCutoff"
    /\ ledger_exists' = TRUE
    /\ ledger' = <<>>
    /\ last_run_date' = get_last_run_date(ledger')
    /\ ledger_reads' = ledger_reads + 1
    /\ pc' = "FetchingCatalog"
    /\ UNCHANGED <<world, abort_stage, runs, response_status, all_datasets,
                   modified_datasets, futures, collected, processed_file_count,
                   errors_logged, ledger0, ledger_appends, last_done,
                   failed_date, max_appended, fetch_time, last_completed_fetch,
                   completed_good>>
    /\ UNCHANGED <<written, side>>

\* get_last_run_date: a missing file is created holding the header only
\* (mode "w"), then the file is read once and the cutoff computed.
ReadCutoff ==
    /\ pc = "ReadingCutoff"
    /\ ledger_exists' = TRUE
    /\ ledger' = IF ledger_exists THEN ledger ELSE <<>>
    /\ last_run_date' = get_last_run_date(ledger')
    /\ ledger_reads' = ledger_reads + 1
    /\ pc' = "FetchingCatalog"
    /\ UNCHANGED <<world, abort_stage, runs, response_status, all_datasets,
                   modified_datasets, futures, collected, processed_file_count,
                   errors_logged, ledger0, ledger_appends, last_done,
                   failed_date, max_appended, fetch_time, last_completed_fetch,
                   completed_good>>
    /\ UNCHANGED <<written, side>>

\* get_last_run_date raises: the file cannot be created or cannot be read.
ReadCutoffFail ==
    /\ pc = "ReadingCutoff"
    /\ Abort("ReadingCutoff")
    /\ UNCHANGED <<world, ledger_exists, ledger, runs, run_locals, history>>
    /\ UNCHANGED <<written, side>>

\* get_file_data: requests.get returned a response (of any status: the
\* status is not looked at) and response.json() parsed its body.
FetchCatalog ==
    /\ pc = "FetchingCatalog"
    /\ \E status \in {200, 500}, kind \in {"list", "dict", "scalar"} :
         /\ response_status' = status
         /\ all_datasets' = IF kind = "list" THEN JsonList(catalog)
                                             ELSE JsonOther(kind)
    /\ pc' = "Filtering"
    /\ fetch_time' = now
    /\ UNCHANGED <<world, ledger_exists, ledger, abort_stage, runs,
                   last_run_date, modified_datasets, futures, collected,
                   processed_file_count, errors_logged, ledger0, ledger_reads,
                   ledger_appends, last_done, failed_date, max_appended,
                   last_completed_fetch, completed_good>>
    /\ UNCHANGED <<written, side>>

\* get_file_data raises: requests.get on a connection failure,
\* response.json() on a body that is not JSON.
FetchCatalogFail ==
    /\ pc = "FetchingCatalog"
    /\ Abort("FetchingCatalog")
    /\ UNCHANGED <<world, ledger_exists, ledger, runs, run_locals, history>>
    /\ UNCHANGED <<written, side>>

\* `if len(url_list) > 0`: the pool is entered only for a non-empty list.
after_filtering_skip(list) ==
    IF Len(list) > 0 THEN "Dispatching" ELSE "Done"

after_filtering(list) ==
    IF Len(list) > 0 THEN "Dispatching" ELSE "UpdatingLedger"

\* main, lines 153-164: both filters, then the download URL of each survivor.
Filter ==
    /\ pc = "Filtering"
    /\ LET hospital_datasets == filter_hospital_entries(all_datasets)
           modified == filter_modified_entries(hospital_datasets, last_run_date)
       IN  IF \/ iteration_raises(all_datasets)
              \/ filter_modified_raises(hospital_datasets)
              \/ url_extraction_raises(modified)
           THEN /\ Abort("Filtering")
                /\ UNCHANGED modified_datasets
           ELSE /\ modified_datasets' = modified
                /\ pc' = after_filtering(modified)
                /\ UNCHANGED abort_stage
    /\ UNCHANGED <<world, ledger_exists, ledger, runs, last_run_date,
                   response_status, all_datasets, futures, collected,
                   processed_file_count, errors_logged, history>>
    /\ UNCHANGED <<written, side>>

\* executor.submit(process_file, f) for every f of url_list.
Dispatch ==
    /\ pc = "Dispatching"
    /\ futures' = [i \in DOMAIN url_list |-> "pending"]
    /\ pc' = "Collecting"
    /\ UNCHANGED <<world, ledger_exists, ledger, abort_stage, runs, last_run_date,
                   response_status, all_datasets, modified_datasets, collected,
                   processed_file_count, errors_logged, history>>
    /\ UNCHANGED <<written, side>>

running == {i \in DOMAIN futures : futures[i] = "running"}

\* A pool thread takes a queued call of process_file.
WorkerStart(i) ==
    /\ i \in DOMAIN futures
    /\ futures[i] = "pending"
    /\ Cardinality(running) < max_workers
    /\ futures' = [futures EXCEPT ![i] = "running"]
    /\ UNCHANGED <<world, ledger_exists, ledger, pc, abort_stage, runs,
                   last_run_date, response_status, all_datasets, modified_datasets,
                   collected, processed_file_count, errors_logged, history>>
    /\ UNCHANGED <<written, side>>

\* process_file adding to the counter of main when it has written its file.
WorkerFinish_counting(i) ==
    /\ i \in DOMAIN futures
    /\ futures[i] = "running"
    /\ \/ /\ futures' = [futures EXCEPT ![i] = "returned"]
          /\ written' = written \cup {output_path(url_list[i])}
          /\ processed_file_count' = processed_file_count + 1
       \/ /\ futures' = [futures EXCEPT ![i] = "raised"]
          /\ UNCHANGED <<written, processed_file_count>>
    /\ UNCHANGED <<world, ledger_exists, ledger, pc, abort_stage, runs,
                   last_run_date, response_status, all_datasets, modified_datasets,
                   collected, errors_logged, history>>
    /\ UNCHANGED side

\* process_file writes its output file and returns its message, or raises
\* before output_path is opened (requests.get, raise_for_status, decode, an
\* empty body at rows[0]).
WorkerFinish(i) ==
    /\ i \in DOMAIN futures
    /\ futures[i] = "running"
    /\ \/ /\ futures' = [futures EXCEPT ![i] = "returned"]
          /\ written' = written \cup {output_path(url_list[i])}
       \/ /\ futures' = [futures EXCEPT ![i] = "raised"]
          /\ UNCHANGED written
    /\ UNCHANGED <<world, ledger_exists, ledger, pc, abort_stage, runs,
                   last_run_date, response_status, all_datasets, modified_datasets,
                   collected, processed_file_count, errors_logged, history>>
    /\ UNCHANGED side

finished(i) == futures[i] \in {"returned", "raised"}

\* The loop body with the exception of future.result() not caught.
Collect_uncaught(i) ==
    /\ pc = "Collecting"
    /\ i \in DOMAIN futures
    /\ i \notin collected
    /\ finished(i)
    /\ collected' = collected \cup {i}
    /\ processed_file_count' = processed_file_count + 1
    /\ IF futures[i] = "raised" THEN Abort("Collecting")
                                ELSE UNCHANGED <<pc, abort_stage>>
    /\ UNCHANGED <<world, ledger_exists, ledger, runs, last_run_date,
                   response_status, all_datasets, modified_datasets, futures,
                   errors_logged, history>>
    /\ UNCHANGED <<written, side>>

\* One iteration of `for future in as_completed(...)`: the counter is
\* incremented, then future.result() returns or raises into the except.
Collect(i) ==
    /\ pc = "Collecting"
    /\ i \in DOMAIN futures
    /\ i \notin collected
    /\ finished(i)
    /\ collected' = collected \cup {i}
    /\ processed_file_count' = processed_file_count + 1
    /\ errors_logged' = errors_logged + (IF futures[i] = "raised" THEN 1 ELSE 0)
    /\ UNCHANGED <<world, ledger_exists, ledger, pc, abort_stage, runs,
                   last_run_date, response_status, all_datasets, modified_datasets,
                   futures, history>>
    /\ UNCHANGED <<written, side>>

\* Leaving the pool without waiting for the futures.
ExitPool_nowait ==
    /\ pc = "Collecting"
    /\ pc' = "UpdatingLedger"
    /\ UNCHANGED <<world, ledger_exists, ledger, abort_stage, runs, run_locals,
                   history>>
    /\ UNCHANGED <<written, side>>

\* as_completed is exhausted and the `with` block shuts the pool down.
ExitPool ==
    /\ pc = "Collecting"
    /\ collected = DOMAIN futures
    /\ pc' = "UpdatingLedger"
    /\ UNCHANGED <<world, ledger_exists, ledger, abort_stage, runs, run_locals,
                   history>>
    /\ UNCHANGED <<written, side>>

good_response == response_status = 200 /\ all_datasets.kind = "list"

new_row(run_date, processed_count) ==
    [run_date |-> strftime_date(run_date), processed_count |-> processed_count]

Max(a, b) == IF a >= b THEN a ELSE b

\* The versions this run selected, recorded when the run completes.
record_done ==
    [i \in Datasets |->
        IF \E k \in DOMAIN modified_datasets : modified_datasets[k].identifier = i
        THEN LET k == CHOOSE k \in DOMAIN modified_datasets :
                          modified_datasets[k].identifier = i
             IN  modified_datasets[k].modified
        ELSE last_done[i]]

\* The date this run appends, for the datasets whose worker raised.
record_failed ==
    [i \in Datasets |->
        IF \E k \in DOMAIN modified_datasets :
               modified_datasets[k].identifier = i /\ futures[k] = "raised"
        THEN parse_date(strftime_date(now))
        ELSE failed_date[i]]

\* A run that logged a failure ends without its row, so that the next run
\* selects the same files again.
UpdateLedger_unless_failed ==
    /\ pc = "UpdatingLedger"
    /\ IF errors_logged > 0
       THEN UNCHANGED <<ledger, ledger_exists, ledger_appends, max_appended>>
       ELSE /\ ledger' = Append(ledger, new_row(now, processed_file_count))
            /\ ledger_exists' = TRUE
            /\ ledger_appends' = ledger_appends + 1
            /\ max_appended' = Max(max_appended, strftime_date(now))
    /\ last_done' = record_done
    /\ failed_date' = record_failed
    /\ last_completed_fetch' = fetch_time
    /\ completed_good' = (completed_good /\ good_response)
    /\ pc' = "Done"
    /\ UNCHANGED <<world, abort_stage, runs, run_locals, ledger0, ledger_reads,
                   fetch_time>>
    /\ UNCHANGED <<written, side>>

\* update_run_metadata(datetime.today(), processed_file_count): one row is
\* appended (mode "a"); then main prints DONE and returns.
UpdateLedger ==
    /\ pc = "UpdatingLedger"
    /\ ledger' = Append(ledger, new_row(now, processed_file_count))
    /\ ledger_exists' = TRUE
    /\ ledger_appends' = ledger_appends + 1
    /\ max_appended' = Max(max_appended, strftime_date(now))
    /\ last_done' = record_done
    /\ failed_date' = record_failed
    /\ last_completed_fetch' = fetch_time
    /\ completed_good' = (completed_good /\ good_response)
    /\ pc' = "Done"
    /\ UNCHANGED <<world, abort_stage, runs, run_locals, ledger0, ledger_reads,
                   fetch_time>>
    /\ UNCHANGED <<written, side>>

\* A failed update that has already written its row.
UpdateLedgerFail_written ==
    /\ pc = "UpdatingLedger"
    /\ ledger' = Append(ledger, new_row(now, processed_file_count))
    /\ Abort("UpdatingLedger")
    /\ UNCHANGED <<world, ledger_exists, runs, run_locals, history>>
    /\ UNCHANGED <<written, side>>

\* update_run_metadata raises: open(METADATA_PATH, "a") fails.
UpdateLedgerFail ==
    /\ pc = "UpdatingLedger"
    /\ Abort("UpdatingLedger")
    /\ UNCHANGED <<world, ledger_exists, ledger, runs, run_locals, history>>
    /\ UNCHANGED <<written, side>>

Next ==
    \/ Tick
    \/ \E i \in Datasets : Modify(i)
    \/ Start
    \/ ReadCutoff
    \/ ReadCutoffFail
    \/ FetchCatalog
    \/ FetchCatalogFail
    \/ Filter
    \/ Dispatch
    \/ \E i \in Datasets : WorkerStart(i)
    \/ \E i \in Datasets : WorkerFinish(i)
    \/ \E i \in Datasets : Collect(i)
    \/ ExitPool
    \/ UpdateLedger
    \/ UpdateLedgerFail

Spec == Init /\ [][Next]_vars

\* The steps of the coordinating thread.
MainStep ==
    \/ ReadCutoff
    \/ ReadCutoffFail
    \/ FetchCatalog
    \/ FetchCatalogFail
    \/ Filter
    \/ Dispatch
    \/ \E i \in Datasets : Collect(i)
    \/ ExitPool
    \/ UpdateLedger
    \/ UpdateLedgerFail

\* The interpreter keeps running the main thread, and the pool keeps
\* running every submitted call until it returns or raises.
FairSpec ==
    /\ Spec
    /\ WF_vars(MainStep)
    /\ \A i \in Datasets : WF_vars(WorkerStart(i)) /\ WF_vars(WorkerFinish(i))

----------------------------------------------------------------------------
(* to_snake_case.  A string is a sequence of characters; Chars has one     *)
(* character of each class the function tells apart.                       *)

MaxLen == 4             \* longest column name

Chars      == {"a", "B", "7", " ", "_", "'", "%"}
Whitespace == {" "}
Quotes     == {"'"}                  \* the class [\u2019'",()\[\]{}]
Alnum      == {"a", "b", "B", "7"}   \* the class [a-zA-Z0-9]

\* str.strip(chars): the characters of `chars` are cut from both ends.
strip(s, chars) ==
    LET keep == {i \in DOMAIN s : s[i] \notin chars}
    IN  IF keep = {} THEN <<>>
        ELSE SubSeq(s, CHOOSE i \in keep : \A j \in keep : i <= j,
                       CHOOSE i \in keep : \A j \in keep : j <= i)

\* re.sub(r"[...]", "", s)
remove(s, chars) ==
    LET stays(c) == c \notin chars
    IN  SelectSeq(s, stays)

\* re.sub(r"[^a-zA-Z0-9]+", "_", s): every maximal run of other characters
\* becomes one underscore.
join_runs(s) ==
    LET marked == [i \in DOMAIN s |->
                      IF s[i] \in Alnum THEN s[i]
                      ELSE IF i > 1 /\ s[i - 1] \notin Alnum THEN "" ELSE "_"]
        stays(c) == c # ""
    IN  SelectSeq(marked, stays)

\* str.lower()
lower(s) == [i \in DOMAIN s |-> IF s[i] = "B" THEN "b" ELSE s[i]]

\* to_snake_case with the underscores cut from the ends before the runs are
\* joined.
to_snake_case_strip_first(name) ==
    lower(join_runs(strip(remove(strip(name, Whitespace), Quotes), {"_"})))

to_snake_case(name) ==
    strip(lower(join_runs(remove(strip(name, Whitespace), Quotes))), {"_"})

----------------------------------------------------------------------------
(* process_file, from the response to the rows it writes.  `rows` is what  *)
(* csv.reader makes of the body: a sequence of rows, a row a sequence of   *)
(* cells, a cell a string.                                                 *)

\* What a call did: it raised, or it returned a value.
returns(v) == [raised |-> FALSE, value |-> v]
raises     == [raised |-> TRUE, value |-> <<>>]

MaxCols == 2            \* most cells in a row
MaxRows == 2            \* most data rows in a file

\* The response is refused by raise_for_status, or rows[0] raises IndexError
\* on an empty body; else the file holds the header in snake case and the
\* data rows as they came.
process_file_all_rows(status, rows) ==
    IF status >= 400 \/ rows = <<>> THEN raises
    ELSE returns([r \in DOMAIN rows |->
                     [j \in DOMAIN rows[r] |-> to_snake_case(rows[r][j])]])

process_file(status, rows) ==
    IF status >= 400 \/ rows = <<>> THEN raises
    ELSE LET header           == Head(rows)
             data_rows        == Tail(rows)
             processed_header == [j \in DOMAIN header |-> to_snake_case(header[j])]
         IN  returns(<<processed_header>> \o data_rows)

----------------------------------------------------------------------------
(* The functions of the program taken alone.  FnSpec applies one function  *)
(* once to arguments drawn from a bounded set; main() is not running.      *)

MaxList == 2            \* longest list handed to a filter

main_vars == <<world, ledger_exists, ledger, pc, abort_stage, runs, run_locals,
               written, history>>
pool_vars == <<pool_pending, pool_running, pool_finished>>

BoundedSeq(S, n) == UNION {[1..k -> S] : k \in 0..n}

\* The descriptors of a list are told apart by their position.
Numbered(s) == [k \in DOMAIN s |-> [s[k] EXCEPT !.identifier = k]]

ThemeKinds == {"list_with", "list_without", "absent", "str_with", "str_without",
               "null"}

ThemeInputs == {Descriptor(0, th, "naive", <<url_of(1)>>) : th \in ThemeKinds}

ModifiedInputs ==
    {[Descriptor(0, "list_with", mk, <<url_of(1)>>) EXCEPT !.modified = m] :
        mk \in {"naive", "aware"}, m \in 0..MaxTime}
    \cup {Descriptor(0, "list_with", mk, <<url_of(1)>>) : mk \in {"absent", "invalid"}}

Cutoffs == {Sentinel} \cup (0..MaxTime)

FilterHospitalCall(v) == [f |-> "filter_hospital_entries", dataset_list |-> v]

FilterModifiedCall(list, cutoff) ==
    [f |-> "filter_modified_entries", dataset_list |-> list,
     last_run_date |-> cutoff]

ToSnakeCaseCall(name) == [f |-> "to_snake_case", name |-> name]

ProcessFileCall(status, rows) ==
    [f |-> "process_file", status |-> status, rows |-> rows]

\* Column names: "B a" and "b_a" have the same snake case.
HeaderCells == {<<"B", " ", "a">>, <<"b", "_", "a">>, <<"7", "%">>}

\* Cells of data rows: to_snake_case would change both.
DataCells == {<<"B">>, <<"%">>}

FnInit ==
    /\ NotStarted(AnyCatalog)
    /\ fn_pc = "ready"
    /\ \/ \E s \in BoundedSeq(ThemeInputs, MaxList) :
             fn_in = FilterHospitalCall(JsonList(Numbered(s)))
       \/ fn_in = FilterHospitalCall(JsonOther("dict"))
       \/ \E s \in BoundedSeq(ModifiedInputs, MaxList) : \E c \in Cutoffs :
             fn_in = FilterModifiedCall(Numbered(s), c)
       \/ \E s \in BoundedSeq(Chars, MaxLen) :
             fn_in = ToSnakeCaseCall(s)
       \/ \E st \in {200, 404} :
             \/ fn_in = ProcessFileCall(st, <<>>)
             \/ \E h \in BoundedSeq(HeaderCells, MaxCols) :
                  \E d \in BoundedSeq(BoundedSeq(DataCells, MaxCols), MaxRows) :
                      fn_in = ProcessFileCall(st, <<h>> \o d)
    /\ fn_out = returns(<<>>)
    /\ pool_pending = 0
    /\ pool_running = 0
    /\ pool_finished = 0

Called(f) == fn_pc = "ready" /\ fn_in.f = f

Done(f) == fn_pc = "done" /\ fn_in.f = f

Return(out) ==
    /\ fn_out' = out
    /\ fn_pc' = "done"
    /\ UNCHANGED <<fn_in, pool_vars, main_vars>>

ApplyFilterHospital ==
    /\ Called("filter_hospital_entries")
    /\ Return(IF iteration_raises(fn_in.dataset_list) THEN raises
              ELSE returns(filter_hospital_entries(fn_in.dataset_list)))

ApplyFilterModified ==
    /\ Called("filter_modified_entries")
    /\ Return(IF filter_modified_raises(fn_in.dataset_list) THEN raises
              ELSE returns(filter_modified_entries(fn_in.dataset_list,
                                                   fn_in.last_run_date)))

ApplyToSnakeCase ==
    /\ Called("to_snake_case")
    /\ Return(returns(to_snake_case(fn_in.name)))

ApplyProcessFile ==
    /\ Called("process_file")
    /\ Return(process_file(fn_in.status, fn_in.rows))

FnNext ==
    \/ ApplyProcessFile
    \/ ApplyFilterHospital
    \/ ApplyFilterModified
    \/ ApplyToSnakeCase

FnSpec == FnInit /\ [][FnNext]_vars

----------------------------------------------------------------------------
(* The thread pool taken alone, by counts: `with ThreadPoolExecutor(       *)
(* max_workers=50) as executor` and the submit of one call of process_file *)
(* per entry of url_list.  A call is queued by submit, taken by a pool     *)
(* thread while fewer than max_workers threads are busy, and leaves its    *)
(* thread when process_file returns or raises.                             *)

MaxUrls == 52           \* longest url_list

PoolInit ==
    /\ NotStarted(AnyCatalog)
    /\ SideOff

pool_submitted == pool_pending + pool_running + pool_finished

\* executor.submit(process_file, f)
PoolSubmit ==
    /\ pool_submitted < MaxUrls
    /\ pool_pending' = pool_pending + 1
    /\ UNCHANGED <<pool_running, pool_finished, fn_pc, fn_in, fn_out, main_vars>>

\* A pool with no limit on its threads.
PoolStart_unbounded ==
    /\ pool_pending > 0
    /\ pool_pending' = pool_pending - 1
    /\ pool_running' = pool_running + 1
    /\ UNCHANGED <<pool_finished, fn_pc, fn_in, fn_out, main_vars>>

\* A free pool thread takes the next queued call.
PoolStart ==
    /\ pool_pending > 0
    /\ pool_running < max_workers
    /\ pool_pending' = pool_pending - 1
    /\ pool_running' = pool_running + 1
    /\ UNCHANGED <<pool_finished, fn_pc, fn_in, fn_out, main_vars>>

\* process_file returns or raises; its thread is free again.
PoolFinish ==
    /\ pool_running > 0
    /\ pool_running' = pool_running - 1
    /\ pool_finished' = pool_finished + 1
    /\ UNCHANGED <<pool_pending, fn_pc, fn_in, fn_out, main_vars>>

PoolNext ==
    \/ PoolSubmit
    \/ PoolStart
    \/ PoolFinish

\* The pool threads keep running: a queued call is taken when a thread is
\* free, and process_file ends (its requests have an end).
PoolSpec ==
    /\ PoolInit
    /\ [][PoolNext]_vars
    /\ WF_vars(PoolStart)
    /\ WF_vars(PoolFinish)

----------------------------------------------------------------------------
(* Properties.                                                             *)

IsPrefix(s, t) == Len(s) <= Len(t) /\ SubSeq(t, 1, Len(s)) = s

returned == {i \in DOMAIN futures : futures[i] = "returned"}
raised   == {i \in DOMAIN futures : futures[i] = "raised"}

FatalStages == {"ReadingCutoff", "FetchingCatalog", "UpdatingLedger"}
AfterCutoff == {"FetchingCatalog", "Filtering", "Dispatching", "Collecting",
                "UpdatingLedger"}

\* C1: when a run is Done, the count in the row it appended is the number
\* of its workers that returned a result; failed workers are not counted.
C1_CountIsReturned ==
    pc = "Done" =>
        /\ processed_file_count = Cardinality(returned)
        /\ ledger[Len(ledger)].processed_count = Cardinality(returned)

\* C2: a run that failed in ReadingCutoff, FetchingCatalog or
\* UpdatingLedger is aborted and has left the rows of the ledger exactly as
\* they were when it started.
C2_FatalStageLeavesLedger ==
    abort_stage \in FatalStages =>
        /\ pc = "Aborted"
        /\ ledger = ledger0
        /\ ledger_appends = 0

C2_Witness ==
    /\ pc = "Aborted"
    /\ abort_stage = "UpdatingLedger"
    /\ Len(ledger0) > 0
    /\ Len(futures) > 0

\* C3: the ledger holds the row of the current run only when none of the
\* run's workers is pending or running.
C3_AppendAfterWorkers ==
    (Len(ledger) > Len(ledger0) \/ pc \in {"UpdatingLedger", "Done"}) =>
        \A i \in DOMAIN futures : finished(i)

C3_Witness ==
    /\ pc = "Done"
    /\ Len(ledger) = Len(ledger0) + 1
    /\ Len(futures) >= 2
    /\ raised # {}

\* C4: after a metastore response with a non-2xx status, or whose body is
\* not a JSON list, the run does not go on to dispatch or to the ledger
\* append.
C4_BadResponseIsFatal ==
    (response_status = 500 \/ all_datasets.kind \in {"dict", "scalar"}) =>
        pc \notin {"Dispatching", "Collecting", "UpdatingLedger", "Done"}

\* C5: a run that has dispatched its workers reaches Done, whichever of
\* them fail, unless the ledger write fails; no worker failure aborts it.
C5_DoneDespiteWorkerFailures ==
    \A r \in 1..MaxRuns :
        (runs = r /\ pc = "Dispatching") ~>
            (runs = r /\ (pc = "Done" \/ abort_stage = "UpdatingLedger"))

C5_Witness ==
    /\ pc = "Done"
    /\ raised # {}
    /\ returned # {}
    /\ collected = DOMAIN futures

\* C6: a run that has filtered the catalog has selected every Hospitals
\* descriptor it saw whose modified value is later than the instant at
\* which the last completed run fetched the catalog: no change made since
\* then is skipped (the metastore having answered every run properly).
C6_NoChangeSkipped ==
    ( /\ pc \in {"Dispatching", "Collecting", "UpdatingLedger"}
      /\ good_response
      /\ completed_good ) =>
        \A k \in DOMAIN all_datasets.items :
            LET d == all_datasets.items[k]
            IN  ( /\ has_hospitals_theme(d)
                  /\ d.modified_kind = "naive"
                  /\ d.modified > last_completed_fetch ) =>
                    \E j \in DOMAIN modified_datasets : modified_datasets[j] = d

\* C7: a run selects no descriptor at a modified value that a completed
\* run has already selected.
C7_NoReselection ==
    pc \in {"Dispatching", "Collecting", "UpdatingLedger"} =>
        \A k \in DOMAIN modified_datasets :
            modified_datasets[k].modified #
                last_done[modified_datasets[k].identifier]

\* C8: every step leaves the rows the ledger held as a prefix of the rows
\* it holds afterwards, and never removes the file.
C8_AppendOnly ==
    [][IsPrefix(ledger, ledger') /\ (ledger_exists => ledger_exists')]_vars

C8_Witness ==
    /\ pc = "FetchingCatalog"
    /\ Len(ledger) >= 2
    /\ ledger_reads = 1

\* C9: a run that is Done has read the ledger once and appended exactly
\* one row to it, a row of count 0 when no descriptor survived filtering;
\* no run reads or appends more than once.
C9_OneRowPerRun ==
    /\ ledger_reads <= 1
    /\ ledger_appends <= 1
    /\ Len(ledger) = Len(ledger0) + ledger_appends
    /\ pc = "Done" =>
          /\ ledger_reads = 1
          /\ ledger_appends = 1
          /\ SubSeq(ledger, 1, Len(ledger0)) = ledger0
          /\ modified_datasets = <<>> => ledger[Len(ledger)].processed_count = 0

C9_Witness ==
    /\ pc = "Done"
    /\ runs = 1
    /\ ledger0 = <<>>
    /\ modified_datasets = <<>>
    /\ Len(ledger) = 1

\* C10: the cutoff a run has read is the sentinel when the ledger holds no
\* row (the file then exists), and otherwise the largest run date ever
\* appended, which no row of the ledger exceeds.
C10_CutoffIsMaxRunDate ==
    pc \in AfterCutoff =>
        /\ ledger_exists
        /\ ledger = <<>> => last_run_date = Sentinel
        /\ ledger # <<>> => last_run_date = parse_date(max_appended)
        /\ \A k \in DOMAIN ledger : parse_date(ledger[k].run_date) <= last_run_date

C10_Witness ==
    /\ pc = "FetchingCatalog"
    /\ Len(ledger) >= 2
    /\ ledger[1].run_date < ledger[2].run_date
    /\ last_run_date = parse_date(ledger[2].run_date)

\* C11: filter_modified_entries keeps a descriptor exactly when its modified
\* field is present, parses as a timestamp and is strictly later than the
\* cutoff (equal to the cutoff: dropped), and keeps the order of its input.
C11_KeepsStrictlyNewer ==
    Done("filter_modified_entries") =>
        LET newer(d) == /\ d.modified_kind \in {"naive", "aware"}
                        /\ d.modified > fn_in.last_run_date
        IN  /\ ~fn_out.raised
            /\ fn_out.value = SelectSeq(fn_in.dataset_list, newer)

\* C12: filter_hospital_entries keeps a descriptor exactly when its theme
\* field is a list holding "Hospitals" as an element; a descriptor without
\* the field, or whose theme is a single string (even one with "Hospitals"
\* inside it), is dropped without an error; no input gives no output.
C12_KeepsListMembersOnly ==
    Done("filter_hospital_entries") =>
        LET member(d) == d.theme = "list_with"
        IN  /\ ~fn_out.raised
            /\ fn_out.value = SelectSeq(fn_in.dataset_list.items, member)

\* C13: no malformed record of a catalog list ends a run: a descriptor with
\* a missing or malformed theme, a missing, malformed or incomparable
\* modified value, or a missing or empty distribution list is dropped, and
\* the run goes on to dispatch the others and to finish.
C13_MalformedRecordsAreSkipped ==
    good_response => ~(pc = "Aborted" /\ abort_stage = "Filtering")

\* C14: to_snake_case returns a value for every string, and applying it to
\* its own result changes nothing.
C14_Idempotent ==
    Done("to_snake_case") =>
        /\ ~fn_out.raised
        /\ to_snake_case(fn_out.value) = fn_out.value

\* "B %7" has become "b_7".
C14_Witness ==
    /\ Done("to_snake_case")
    /\ fn_in.name = <<"B", " ", "%", "7">>
    /\ fn_out.value = <<"b", "_", "7">>

\* C15: whatever the number of URLs, at most max_workers calls of
\* process_file run at the same time; the others wait in the queue, and
\* every call that waits is run in the end.
C15_AtMostMaxWorkers ==
    /\ [](pool_running <= max_workers)
    /\ (pool_pending > 0) ~> (pool_pending = 0)

\* Every thread is busy and a call waits.
C15_Witness ==
    /\ pool_running = max_workers
    /\ pool_pending > 0

\* C16: the workers of a run that execute at the same time write to output
\* paths that differ from one another.
C16_DistinctOutputPaths ==
    \A i \in running : \A j \in running :
        i # j => output_path(url_list[i]) # output_path(url_list[j])

\* C17: when the pool is left, the run has produced one output file for
\* every URL whose worker returned and has logged one failure for every URL
\* whose worker raised: of N URLs with k failures, N - k files and k lines.
C17_FilesAndFailures ==
    (pc \in {"UpdatingLedger", "Done"} /\ Len(futures) > 0) =>
        /\ Cardinality(written) = Len(futures) - Cardinality(raised)
        /\ errors_logged = Cardinality(raised)

\* C18: within a run processed_file_count changes only in a step of the
\* collecting loop of main, by one for the one result collected; no step of
\* a worker changes it.
C18_CounterOnlyInCollect ==
    [][(processed_file_count' # processed_file_count /\ runs' = runs) =>
          /\ pc = "Collecting"
          /\ futures' = futures
          /\ \E i \in DOMAIN futures : i \notin collected /\ collected' = collected \cup {i}
          /\ processed_file_count' = processed_file_count + 1]_vars

\* One result is collected and counted while another worker is running.
C18_Witness ==
    /\ pc = "Collecting"
    /\ processed_file_count = 1
    /\ Cardinality(collected) = 1
    /\ running # {}

\* C19: the file process_file writes has as many rows and as many columns
\* as its source; its header is the snake case of each source column name,
\* in order and with duplicates kept; every data row is the source row.
C19_SameShapeSameData ==
    (Done("process_file") /\ ~fn_out.raised) =>
        LET source == fn_in.rows
            output == fn_out.value
        IN  /\ Len(output) = Len(source)
            /\ Len(output[1]) = Len(source[1])
            /\ \A j \in DOMAIN source[1] : output[1][j] = to_snake_case(source[1][j])
            /\ \A r \in 2..Len(source) : output[r] = source[r]

\* Two columns got the same name, and data rows were written.
C19_Witness ==
    /\ Done("process_file")
    /\ ~fn_out.raised
    /\ Len(fn_in.rows) > 1
    /\ Len(fn_in.rows[1]) = 2
    /\ fn_in.rows[1][1] # fn_in.rows[1][2]
    /\ fn_out.value[1][1] = fn_out.value[1][2]

\* C20: a run whose workers failed still appends its row, dated with the
\* day of the run, so the cutoff of every later run is that date or later;
\* a descriptor whose download failed in a completed run is selected by a
\* later run only with a modified value later than the date of that run.
C20_FailedFilesAreNotRetried ==
    /\ (pc = "Done" /\ raised # {}) =>
          /\ Len(ledger) = Len(ledger0) + 1
          /\ ledger[Len(ledger)].run_date = strftime_date(now)
          /\ \A k \in raised :
                failed_date[modified_datasets[k].identifier]
                    = parse_date(ledger[Len(ledger)].run_date)
    /\ pc \in AfterCutoff =>
          \A i \in Datasets :
              failed_date[i] # Never => last_run_date >= failed_date[i]
    /\ pc \in {"Dispatching", "Collecting", "UpdatingLedger"} =>
          \A k \in DOMAIN modified_datasets :
              LET d == modified_datasets[k]
              IN  failed_date[d.identifier] # Never =>
                      d.modified > failed_date[d.identifier]

\* A later run has skipped a Hospitals descriptor whose download failed,
\* and selected another one.
C20_Witness ==
    /\ pc = "Dispatching"
    /\ good_response
    /\ \E i \in Datasets :
          /\ failed_date[i] # Never
          /\ has_hospitals_theme(catalog[i])
          /\ catalog[i].modified_kind = "naive"
          /\ \A k \in DOMAIN modified_datasets : modified_datasets[k].identifier # i

====
